---- MODULE Spec2Model ----
(***************************************************************************)
(* The movement tests of myScripts/motor_diagnostics.py (test_single_motor)*)
(* and myScripts/wrist_roll_diagnostic.py (diagnose_wrist_roll): the loop  *)
(* over the test positions, the Goal_Position write, and the loop that     *)
(* monitors the movement by polling Present_Position and Moving; around    *)
(* them, what the scripts do with the bus from connect to disconnect:      *)
(* main of motor_diagnostics.py calling test_single_motor for one motor or *)
(* for every motor, and the whole of diagnose_wrist_roll.                  *)
(*                                                                         *)
(* Time is counted in ticks of 0.1 s.  The motor is the environment: a     *)
(* read of Present_Position or Moving returns whatever the motor shows at  *)
(* that moment, and every bus read or write may raise.                     *)
(***************************************************************************)
EXTENDS Integers, Sequences, FiniteSets, TLC

\* ------------------------------------------------------------------ bounds
\* The longest the two bus reads of one sample take together, in ticks.
MaxReadDelay == 1
\* How many entries of the list of test positions a run goes through.
MaxMovements == 2
\* The longest run of samples the history counts.
MaxRun == 7
\* How many entries of motor_config the all-motors run goes through.
MaxMotors == 2

\* --------------------------------------------------------------- constants
TSM == "motor_diagnostics"
DWR == "wrist_roll_diagnostic"
Scripts == {TSM, DWR}

None == -1

\* `while time.time() - start_time < 5.0` / `timeout = 3.0`
TsmTimeout == 50
DwrTimeout == 30
\* a shorter wait than the script's
Timeout_Short(s) == IF s = TSM THEN TsmTimeout - 10 ELSE DwrTimeout - 10
Timeout(s) == IF s = TSM THEN TsmTimeout ELSE DwrTimeout

\* `time.sleep(0.2)` / `time.sleep(0.1)` at the end of an iteration
TsmPollInterval == 2
DwrPollInterval == 1
\* the sleep at the end of an iteration left out
PollInterval_Zero(s) == 0
PollInterval(s) == IF s = TSM THEN TsmPollInterval ELSE DwrPollInterval

\* `time.sleep(1.0)` / `time.sleep(0.5)` after the monitoring loop
TsmWaitBetween == 10
DwrWaitBetween == 5
WaitTicks(s) == IF s = TSM THEN TsmWaitBetween ELSE DwrWaitBetween

\* `abs(current_pos - target_pos) < 30` / `abs(current - target) < 20`
TsmTolerance == 30
DwrTolerance == 20
\* each script with the tolerance of the other
Tolerance_Swapped(s) == IF s = TSM THEN DwrTolerance ELSE TsmTolerance
Tolerance(s) == IF s = TSM THEN TsmTolerance ELSE DwrTolerance

\* `abs(current - last_pos) < 2` and `stuck_count > 5`
StuckEpsilon == 2
StuckLimit == 5

\* test_offsets / test_positions, as offsets from current_pos
TestOffsets(s, large) ==
    IF s = TSM
    THEN IF large THEN <<0, 600, -600, 400, -400, 200, -200, 0>>
                  ELSE <<0, 300, -300, 150, -150, 0>>
    ELSE <<0, 100, -100, 0>>

\* safe_min, safe_max
SafeMin(s, large) == IF s = TSM /\ large THEN 200 ELSE 500
SafeMax(s, large) == IF s = TSM /\ large THEN 3800 ELSE 3500

Max(a, b) == IF a >= b THEN a ELSE b
Min(a, b) == IF a <= b THEN a ELSE b
Abs(x) == IF x < 0 THEN -x ELSE x

\* the clamp without its upper limit
Clamp_NoUpper(s, large, p) == Max(SafeMin(s, large), p)

\* max(safe_min, min(safe_max, target_pos))
Clamp(s, large, p) == Max(SafeMin(s, large), Min(SafeMax(s, large), p))

\* ------------------------------------------------------------- environment
\* Positions the motor is found at when a test starts.
StartPositions == {450, 3450}

\* Where the motor can be found, relative to the target of the movement.
MotorOffsets(s) == IF s = TSM THEN {-30, -29, 0} ELSE {-20, -19, 0}

\* The families of history a run can record.
Watches == {"outcome", "approach", "runs", "exits"}

VARIABLES
    script,         \* which script runs
    large_movement, \* --large-movement (motor_diagnostics only)
    pc,             \* position in the function
    i,              \* index of the movement in the list of test positions
    current_pos,    \* current_pos
    target,         \* target_pos / target, clamped
    current,        \* current, wrist_roll_diagnostic's sample (None = -1)
    is_moving,      \* is_moving
    last_pos,       \* last_pos (None = -1)
    stuck_count,    \* stuck_count
    elapsed,        \* time.time() - start_time, kept at the value it had
                    \* when the monitoring loop was left
    iterStart,      \* elapsed when the while condition last let the body
                    \* run (None before the first time)
    outcomes,       \* what the monitoring loop of this movement reported
    goal,           \* the last Goal_Position written to the bus (None = -1)
    \* history of the run, read by the properties only; a run records the
    \* family named by watch and leaves the others as they start
    watch,          \* the family of history this run records
    startPos,       \* the position read before the first movement
    sendFailed,     \* a write of Goal_Position raised
    readFailed,     \* a read raised in the monitoring loop of this movement
    everInWindow,   \* a sample of this movement was inside the window
    mono,           \* no sample was farther from the target than the one
                    \* before it
    entered,        \* before the timeout the motor, never having moved
                    \* away, was inside the window and stopped: at a sample,
                    \* or after the loop was left
    prevVal,        \* the sample before this one (None = -1)
    sameRun,        \* length of the run of equal samples ending here
    busyRun,        \* length of the run of Moving samples ending here
    quietRun,       \* length of the run of changes under 2 units ending here
    \* main of motor_diagnostics / the frame of diagnose_wrist_roll
    mode,           \* "single": --motor names a motor of motor_config,
                    \* "unknown": it names none, "all": no --motor
    motor,          \* index in motor_config of the motor under test
    result,         \* what test_single_motor returned ("none" before)
    failed_motors,  \* failed_motors
    \* the bus, and the history of the run with it
    connected,      \* bus.connect() has returned
    disconnects,    \* how many times bus.disconnect() was called
    enabled,        \* enable_torque has returned in this test
    released,       \* disable_torque was called after that
    interrupted,    \* a KeyboardInterrupt was raised
    failedStep,     \* the step of this test whose exception was not
                    \* caught where it was raised ("none" if none)
    diagFailed,     \* a temperature, voltage or load read raised
    returnedFalse   \* the motors whose test returned False

prog == <<script, large_movement, pc, i, current_pos, target, current,
          is_moving, last_pos, stuck_count, elapsed, iterStart, outcomes, goal>>
hist == <<watch, startPos, sendFailed, readFailed, everInWindow, mono, entered,
          prevVal, sameRun, busyRun, quietRun>>
main == <<mode, motor, result, failed_motors>>
life == <<connected, disconnects, enabled, released, interrupted, failedStep,
          diagFailed, returnedFalse>>
vars == <<prog, hist, main, life>>

\* ------------------------------------------------- the window, as claimed
\* |value - target| < tolerance, with the tolerances the claims state
InWindow(v) == Abs(v - target) < (IF script = TSM THEN 30 ELSE 20)

\* the timeouts the claims state, in ticks
ClaimedTimeout == IF script = TSM THEN 50 ELSE 30

\* The sample the check works on.
SampleValue == IF script = TSM THEN current_pos ELSE current

\* p is no farther from the target than q, on the same side of it
Closer(p, q) ==
    \/ q = None
    \/ /\ Abs(p - target) <= Abs(q - target)
       /\ (p - target) * (q - target) >= 0

\* ------------------------------------------------------------- the script
\* the test with <= in place of <
ReachedTarget_Inclusive(s, value, tgt, moving) ==
    Abs(value - tgt) <= Tolerance(s) /\ ~moving

\* abs(current_pos - target_pos) < 30 and not is_moving
ReachedTarget(s, value, tgt, moving) ==
    Abs(value - tgt) < Tolerance(s) /\ ~moving

\* if last_pos is not None and abs(current - last_pos) < 2: stuck_count += 1
\* else: stuck_count = 0
NextStuckCount(last, value, count) ==
    IF last # None /\ Abs(value - last) < StuckEpsilon THEN count + 1 ELSE 0

\* the test one sample late
AppearsStuck_Late(count, moving) == count > StuckLimit + 1 /\ moving

\* the test without the Moving flag
AppearsStuck_NoFlag(count, moving) == count > StuckLimit

\* if stuck_count > 5 and is_moving
AppearsStuck(count, moving) == count > StuckLimit /\ moving

\* What one pass over the tests of a sample reports: each `if` that holds
\* prints its outcome and breaks.
Reports(s, value, tgt, moving, count) ==
    IF ReachedTarget(s, value, tgt, moving) THEN <<"Converged">>
    ELSE IF s = DWR /\ AppearsStuck(count, moving) THEN <<"Stuck">>
    ELSE <<>>

\* both scripts catching the error inside the loop
OnReadError_Swallowed(s) == "except_read"

\* Where control goes when a read of the monitoring loop raises:
\* motor_diagnostics catches it inside the loop, wrist_roll_diagnostic lets
\* it reach the handler around the movement.
OnReadError(s) == IF s = TSM THEN "except_read" ELSE "except_movement"

\* the sleep inside the try, skipped when a read raises
AfterExceptRead_NoSleep == "while"

\* After the inner handler of motor_diagnostics: time.sleep(0.2) is outside
\* the try.
AfterExceptRead == "sleep"

\* The script whose monitoring loop reads Present_Position into current_pos.
AssignsCurrentPos(s) == s = TSM

\* The target of movement k: current_pos + offset, clamped.
TargetOf(s, large, cur, k) == Clamp(s, large, cur + TestOffsets(s, large)[k])

\* The position the script read last.
LastSeen == IF script = DWR /\ current # None THEN current ELSE current_pos

\* What a read of Present_Position can return during a movement: the motor
\* where it was last seen, or somewhere around the target.
Readings == {LastSeen} \cup {target + d : d \in MotorOffsets(script)}

\* Where control goes after the position was read before the movements:
\* test_single_motor reads it before enable_torque, diagnose_wrist_roll after.
AfterReadInitial(s) == IF s = TSM THEN "enable_torque" ELSE "for"
AfterEnableTorque(s) == IF s = TSM THEN "for" ELSE "read_initial"

\* the bare except of test_single_motor letting the error go on
OnRecoverError_Escapes == "except_outer"

\* except: print("Motor may have stopped responding"); break
OnRecoverError == "after_for"

\* What follows the movements: the three diagnostic reads of
\* test_single_motor, then disable_torque.
AfterMovements(s) == IF s = TSM THEN "read_temperature" ELSE "disable_torque"
DiagnosticPcs == {"read_temperature", "read_voltage", "read_load"}
AfterDiagnostic(p) ==
    IF p = "read_temperature" THEN "read_voltage"
    ELSE IF p = "read_voltage" THEN "read_load"
    ELSE "disable_torque"

\* a diagnostic read without its try
OnDiagnosticError_Escapes(p) == "except_outer"

\* except Exception as e: print("Could not read ..."), then the next statement
OnDiagnosticError(p) == AfterDiagnostic(p)

\* The locals of a test, as they are when the function is entered.
FreshLocals ==
    /\ i' = 1
    /\ current_pos' = 0
    /\ target' = 0
    /\ current' = None
    /\ is_moving' = FALSE
    /\ last_pos' = None
    /\ stuck_count' = 0
    /\ elapsed' = 0
    /\ iterStart' = None
    /\ goal' = None

InitLocals ==
    /\ i = 1
    /\ current_pos = 0
    /\ target = 0
    /\ current = None
    /\ is_moving = FALSE
    /\ last_pos = None
    /\ stuck_count = 0
    /\ elapsed = 0
    /\ iterStart = None
    /\ outcomes = <<>>
    /\ goal = None

InitHistory ==
    /\ startPos = None
    /\ sendFailed = FALSE
    /\ readFailed = FALSE
    /\ everInWindow = FALSE
    /\ mono = TRUE
    /\ entered = FALSE
    /\ prevVal = None
    /\ sameRun = 0
    /\ busyRun = 0
    /\ quietRun = 0
    /\ interrupted = FALSE
    /\ failedStep = "none"
    /\ diagFailed = FALSE
    /\ returnedFalse = {}

\* A run of the movement test of one motor: the bus is connected, and the
\* function is about to read the position (diagnose_wrist_roll has enabled
\* the torque by then, test_single_motor has not).
InitWatching(w) ==
    /\ watch = w
    /\ script \in Scripts
    /\ large_movement \in (IF script = TSM THEN BOOLEAN ELSE {FALSE})
    /\ pc = "read_initial"
    /\ InitLocals
    /\ InitHistory
    /\ mode = "single"
    /\ motor = 1
    /\ result = "none"
    /\ failed_motors = <<>>
    /\ connected = TRUE
    /\ disconnects = 0
    /\ enabled = (script = DWR)
    /\ released = FALSE

Init == InitWatching("outcome")
InitApproach == InitWatching("approach")
InitRuns == InitWatching("runs")

\* A run of a whole script: main of motor_diagnostics past --list, or
\* diagnose_wrist_roll, about to create the bus and connect.
InitMain ==
    /\ watch = "exits"
    /\ script \in Scripts
    /\ large_movement \in (IF script = TSM THEN BOOLEAN ELSE {FALSE})
    /\ pc = "connect"
    /\ InitLocals
    /\ InitHistory
    /\ mode \in (IF script = TSM THEN {"single", "unknown", "all"}
                                 ELSE {"single"})
    /\ motor = 0
    /\ result = "none"
    /\ failed_motors = <<>>
    /\ connected = FALSE
    /\ disconnects = 0
    /\ enabled = FALSE
    /\ released = FALSE

\* current_pos = bus.read("Present_Position", ...) before the movements
ReadInitial ==
    /\ pc = "read_initial"
    /\ \/ \E p \in StartPositions :
            /\ current_pos' = p
            /\ startPos' = p
            /\ pc' = AfterReadInitial(script)
            /\ UNCHANGED failedStep
       \/ /\ pc' = "except_outer"
          /\ failedStep' = "read_initial"
          /\ UNCHANGED <<current_pos, startPos>>
    /\ UNCHANGED <<script, large_movement, i, target, current, is_moving,
                   last_pos, stuck_count, elapsed, iterStart, outcomes, goal>>
    /\ UNCHANGED <<watch, sendFailed, readFailed, everInWindow, mono, entered,
                   prevVal, sameRun, busyRun, quietRun>>
    /\ UNCHANGED <<main, connected, disconnects, enabled, released,
                   interrupted, diagFailed, returnedFalse>>

\* for i, offset in enumerate(test_offsets):
\*     target_pos = max(safe_min, min(safe_max, current_pos + offset))
ForNext ==
    /\ pc = "for"
    /\ IF i <= Min(Len(TestOffsets(script, large_movement)), MaxMovements)
       THEN /\ target' = TargetOf(script, large_movement, current_pos, i)
            /\ pc' = "sync_write"
       ELSE /\ pc' = "after_for"
            /\ UNCHANGED target
    /\ UNCHANGED <<script, large_movement, i, current_pos, current, is_moving,
                   last_pos, stuck_count, elapsed, iterStart, outcomes, goal>>
    /\ UNCHANGED hist
    /\ UNCHANGED <<main, life>>

\* bus.sync_write("Goal_Position", ...); start_time = time.time();
\* last_pos = None; stuck_count = 0
SyncWrite ==
    /\ pc = "sync_write"
    /\ \/ /\ goal' = target
          /\ elapsed' = 0
          /\ iterStart' = None
          /\ last_pos' = None
          /\ stuck_count' = 0
          /\ outcomes' = <<>>
          /\ readFailed' = FALSE
          /\ everInWindow' = FALSE
          /\ mono' = TRUE
          /\ entered' = FALSE
          /\ prevVal' = None
          /\ sameRun' = 0
          /\ busyRun' = 0
          /\ quietRun' = 0
          /\ pc' = "while"
          /\ UNCHANGED sendFailed
       \/ /\ pc' = IF script = TSM THEN "recover_read" ELSE "after_for"
          /\ sendFailed' = TRUE
          /\ UNCHANGED <<goal, elapsed, iterStart, last_pos, stuck_count,
                         outcomes, readFailed, everInWindow, mono,
                         entered, prevVal, sameRun, busyRun, quietRun>>
    /\ UNCHANGED <<script, large_movement, i, current_pos, target, current,
                   is_moving, watch, startPos>>
    /\ UNCHANGED <<main, life>>

\* except Exception (send failed): current_pos = bus.read("Present_Position");
\* except: break
RecoverRead ==
    /\ pc = "recover_read"
    /\ \/ \E p \in Readings :
            /\ current_pos' = p
            /\ i' = i + 1
            /\ pc' = "for"
       \/ /\ pc' = OnRecoverError
          /\ UNCHANGED <<current_pos, i>>
    /\ UNCHANGED <<script, large_movement, target, current, is_moving,
                   last_pos, stuck_count, elapsed, iterStart, outcomes, goal>>
    /\ UNCHANGED hist
    /\ UNCHANGED <<main, life>>

\* while time.time() - start_time < timeout: ... else: print("Timeout")
While ==
    /\ pc = "while"
    /\ IF elapsed < Timeout(script)
       THEN /\ iterStart' = elapsed
            /\ pc' = "sample"
            /\ UNCHANGED outcomes
       ELSE /\ outcomes' = Append(outcomes, "TimedOut")
            /\ pc' = "wait_between"
            /\ UNCHANGED iterStart
    /\ UNCHANGED <<script, large_movement, i, current_pos, target, current,
                   is_moving, last_pos, stuck_count, elapsed, goal>>
    /\ UNCHANGED hist
    /\ UNCHANGED <<main, life>>

\* current_pos / current = bus.read("Present_Position", ...)
\* is_moving = bus.read("Moving", ...)
ReadSample ==
    /\ pc = "sample"
    /\ \E d \in 0..MaxReadDelay :
         /\ elapsed' = elapsed + d
         /\ \/ \* both reads return
               \E p \in Readings, m \in BOOLEAN :
                 /\ IF AssignsCurrentPos(script)
                    THEN current_pos' = p /\ UNCHANGED current
                    ELSE current' = p /\ UNCHANGED current_pos
                 /\ is_moving' = m
                 /\ pc' = "check"
                 /\ UNCHANGED readFailed
            \/ \* the read of Moving raises
               \E p \in Readings :
                 /\ IF AssignsCurrentPos(script)
                    THEN current_pos' = p /\ UNCHANGED current
                    ELSE current' = p /\ UNCHANGED current_pos
                 /\ pc' = OnReadError(script)
                 /\ readFailed' = (watch = "outcome")
                 /\ UNCHANGED is_moving
            \/ \* the read of Present_Position raises
               /\ pc' = OnReadError(script)
               /\ readFailed' = (watch = "outcome")
               /\ UNCHANGED <<current_pos, current, is_moving>>
    /\ UNCHANGED <<script, large_movement, i, target, last_pos,
                   stuck_count, iterStart, outcomes, goal>>
    /\ UNCHANGED <<watch, startPos, sendFailed, everInWindow, mono, entered,
                   prevVal, sameRun, busyRun, quietRun>>
    /\ UNCHANGED <<main, life>>

\* the stuck bookkeeping and the tests on the sample
Check ==
    /\ pc = "check"
    /\ LET value == SampleValue
           count == IF script = DWR
                    THEN NextStuckCount(last_pos, value, stuck_count)
                    ELSE stuck_count
           said  == Reports(script, value, target, is_moving, count)
       IN  /\ stuck_count' = count
           /\ last_pos' = IF script = DWR THEN value ELSE last_pos
           /\ outcomes' = outcomes \o said
           /\ pc' = IF said # <<>> THEN "wait_between" ELSE "sleep"
           /\ everInWindow' = (everInWindow \/ (watch = "outcome" /\ InWindow(value)))
           /\ mono' = (mono /\ (watch = "approach" => Closer(value, prevVal)))
           /\ prevVal' = IF watch \in {"approach", "runs"} THEN value ELSE prevVal
           /\ IF watch = "runs" /\ script = DWR
              THEN /\ sameRun' = IF prevVal = value
                                 THEN Min(sameRun + 1, MaxRun) ELSE 1
                   /\ busyRun' = IF is_moving
                                 THEN Min(busyRun + 1, MaxRun) ELSE 0
                   /\ quietRun' = IF prevVal # None /\ Abs(value - prevVal) < 2
                                  THEN Min(quietRun + 1, MaxRun) ELSE 0
              ELSE UNCHANGED <<sameRun, busyRun, quietRun>>
           /\ entered' = \/ entered
                          \/ /\ watch = "approach"
                             /\ mono /\ Closer(value, prevVal)
                             /\ elapsed < ClaimedTimeout
                             /\ InWindow(value)
                             /\ ~is_moving
    /\ UNCHANGED <<script, large_movement, i, current_pos, target, current,
                   is_moving, elapsed, iterStart, goal>>
    /\ UNCHANGED <<watch, startPos, sendFailed, readFailed>>
    /\ UNCHANGED <<main, life>>

\* except Exception as e: print("Warning: Read error during movement")
ExceptRead ==
    /\ pc = "except_read"
    /\ pc' = AfterExceptRead
    /\ UNCHANGED <<script, large_movement, i, current_pos, target, current,
                   is_moving, last_pos, stuck_count, elapsed, iterStart,
                   outcomes, goal>>
    /\ UNCHANGED hist
    /\ UNCHANGED <<main, life>>

\* time.sleep(0.2) / time.sleep(0.1)
Sleep ==
    /\ pc = "sleep"
    /\ elapsed' = elapsed + PollInterval(script)
    /\ pc' = "while"
    /\ UNCHANGED <<script, large_movement, i, current_pos, target, current,
                   is_moving, last_pos, stuck_count, iterStart, outcomes, goal>>
    /\ UNCHANGED hist
    /\ UNCHANGED <<main, life>>

\* time.sleep(1.0) / time.sleep(0.5) after the monitoring loop; the motor
\* is looked at once more when the wait ends
WaitBetween ==
    /\ pc = "wait_between"
    /\ \E p \in Readings, m \in BOOLEAN :
         entered' = \/ entered
                    \/ /\ watch = "approach"
                       /\ mono /\ Closer(p, prevVal)
                       /\ elapsed + WaitTicks(script) < ClaimedTimeout
                       /\ InWindow(p)
                       /\ ~m
    /\ i' = i + 1
    /\ pc' = "for"
    /\ UNCHANGED <<script, large_movement, current_pos, target, current,
                   is_moving, last_pos, stuck_count, elapsed, iterStart,
                   outcomes, goal>>
    /\ UNCHANGED <<watch, startPos, sendFailed, readFailed, everInWindow, mono,
                   prevVal, sameRun, busyRun, quietRun>>
    /\ UNCHANGED <<main, life>>

\* except Exception as e: print("Movement failed"); break
ExceptMovement ==
    /\ pc = "except_movement"
    /\ pc' = "after_for"
    /\ UNCHANGED <<script, large_movement, i, current_pos, target, current,
                   is_moving, last_pos, stuck_count, elapsed, iterStart,
                   outcomes, goal>>
    /\ UNCHANGED hist
    /\ UNCHANGED <<main, life>>

\* what follows the movements
AfterFor ==
    /\ pc = "after_for"
    /\ pc' = AfterMovements(script)
    /\ UNCHANGED <<script, large_movement, i, current_pos, target, current,
                   is_moving, last_pos, stuck_count, elapsed, iterStart,
                   outcomes, goal>>
    /\ UNCHANGED hist
    /\ UNCHANGED <<main, life>>

\* bus.enable_torque([motor_name])
EnableTorque ==
    /\ pc = "enable_torque"
    /\ \/ /\ enabled' = TRUE
          /\ released' = FALSE
          /\ pc' = AfterEnableTorque(script)
          /\ UNCHANGED failedStep
       \/ /\ failedStep' = "enable_torque"
          /\ pc' = "except_outer"
          /\ UNCHANGED <<enabled, released>>
    /\ UNCHANGED <<script, large_movement, i, current_pos, target, current,
                   is_moving, last_pos, stuck_count, elapsed, iterStart,
                   outcomes, goal>>
    /\ UNCHANGED <<hist, main, connected, disconnects, interrupted, diagFailed,
                   returnedFalse>>

\* ------------------------------------------------------ the whole scripts
\* motor_config of motor_diagnostics has six motors; a run goes through the
\* first MaxMotors of them.
MotorConfigSize == 6
LastMotor == Min(MotorConfigSize, MaxMotors)

\* Everything but pc and the history of the bus stays as it is.
SameFrame == UNCHANGED <<script, large_movement, i, current_pos, target,
                         current, is_moving, last_pos, stuck_count, elapsed,
                         iterStart, outcomes, goal, hist, main>>

\* Nothing reads the locals of the movements once the loop over the test
\* positions is left: from there on a run of a whole script does not keep
\* them.  What the last monitoring loop reported stays on the screen.
DropLocals ==
    /\ FreshLocals
    /\ startPos' = None
    /\ UNCHANGED <<script, large_movement, outcomes, watch, sendFailed, readFailed,
                   everInWindow, mono, entered, prevVal, sameRun, busyRun,
                   quietRun>>

\* bus = FeetechMotorsBus(...); bus.connect()
\* main: except Exception: print("Failed to connect"); return
\* diagnose_wrist_roll: the finally clause calls bus.disconnect() if the
\* constructor has returned, and nothing if it has not.
Connect ==
    /\ pc = "connect"
    /\ \/ /\ connected' = TRUE
          /\ pc' = "announce"
       \/ \* connect() raises
          /\ pc' = IF script = TSM THEN "exit" ELSE "finally"
          /\ UNCHANGED connected
       \/ \* the constructor raises
          /\ pc' = "exit"
          /\ UNCHANGED connected
    /\ SameFrame
    /\ UNCHANGED <<disconnects, enabled, released, interrupted, failedStep,
                   diagFailed, returnedFalse>>

\* print("Connected successfully"): in main this is before the try whose
\* finally clause disconnects, in diagnose_wrist_roll inside it
Announce ==
    /\ pc = "announce"
    /\ pc' = IF script = TSM THEN "main_try" ELSE "ping"
    /\ SameFrame
    /\ UNCHANGED life

\* try: if args.motor: (if args.motor not in motor_config: return) ... else:
MainTry ==
    /\ pc = "main_try"
    /\ pc' = CASE mode = "single" -> "call"
               [] mode = "unknown" -> "finally"
               [] mode = "all" -> "prompt"
    /\ motor' = IF mode = "single" THEN 1 ELSE motor
    /\ UNCHANGED <<script, large_movement, i, current_pos, target, current,
                   is_moving, last_pos, stuck_count, elapsed, iterStart,
                   outcomes, goal, hist, mode, result, failed_motors, life>>

\* input("Press Enter to start") and failed_motors = [], or
\* input("Press Enter to test next motor"); input() raises EOFError when
\* there is nothing to read
Prompt ==
    /\ pc \in {"prompt", "prompt_next"}
    /\ \/ /\ motor' = IF pc = "prompt" THEN 1 ELSE motor + 1
          /\ failed_motors' = IF pc = "prompt" THEN <<>> ELSE failed_motors
          /\ pc' = "call"
       \/ /\ pc' = "finally"
          /\ UNCHANGED <<motor, failed_motors>>
    /\ UNCHANGED <<script, large_movement, i, current_pos, target, current,
                   is_moving, last_pos, stuck_count, elapsed, iterStart,
                   outcomes, goal, hist, mode, result, life>>

\* test_single_motor(bus, name, motor, large_movement) is entered
Call ==
    /\ pc = "call"
    /\ FreshLocals
    /\ outcomes' = <<>>
    /\ result' = "none"
    /\ startPos' = None
    /\ sendFailed' = FALSE
    /\ enabled' = FALSE
    /\ released' = FALSE
    /\ failedStep' = "none"
    /\ diagFailed' = FALSE
    /\ pc' = "ping"
    /\ UNCHANGED <<script, large_movement, mode, motor, failed_motors>>
    /\ UNCHANGED <<watch, readFailed, everInWindow, mono, entered, prevVal,
                   sameRun, busyRun, quietRun>>
    /\ UNCHANGED <<connected, disconnects, interrupted, returnedFalse>>

\* test_single_motor returns v
Returns(v) ==
    /\ result' = v
    /\ returnedFalse' = IF v = "false" THEN returnedFalse \cup {motor}
                                       ELSE returnedFalse
    /\ pc' = "returned"

\* bus.ping(...); test_single_motor: except: return False;
\* diagnose_wrist_roll: except: return
Ping ==
    /\ pc = "ping"
    /\ \/ /\ pc' = IF script = TSM THEN "read_initial" ELSE "registers"
          /\ UNCHANGED <<result, returnedFalse, failedStep>>
       \/ /\ failedStep' = "ping"
          /\ IF script = TSM
             THEN Returns("false")
             ELSE pc' = "finally" /\ UNCHANGED <<result, returnedFalse>>
    /\ UNCHANGED <<script, large_movement, i, current_pos, target, current,
                   is_moving, last_pos, stuck_count, elapsed, iterStart,
                   outcomes, goal, hist, mode, motor, failed_motors>>
    /\ UNCHANGED <<connected, disconnects, enabled, released, interrupted,
                   diagFailed>>

\* for reg_name in registers: try: bus._read(...) except: print("ERROR")
ReadRegisters ==
    /\ pc = "registers"
    /\ pc' = "disable_first"
    /\ SameFrame
    /\ UNCHANGED life

\* bus.disable_torque(...); bus._read("Torque_Enable"); six reads of
\* Present_Position with the torque off: none of them has a handler of
\* its own
FreeMotor ==
    /\ pc \in {"disable_first", "read_torque_state", "freedom"}
    /\ \/ pc' = CASE pc = "disable_first" -> "read_torque_state"
                  [] pc = "read_torque_state" -> "freedom"
                  [] pc = "freedom" -> "enable_torque"
       \/ pc' = "except_outer"
    /\ SameFrame
    /\ UNCHANGED life

\* try: bus.read("Present_Temperature" / "Present_Voltage" / "Present_Load")
\* except Exception: print("Could not read ...")
ReadDiagnostic ==
    /\ pc \in DiagnosticPcs
    /\ \/ /\ pc' = AfterDiagnostic(pc)
          /\ UNCHANGED diagFailed
       \/ /\ pc' = OnDiagnosticError(pc)
          /\ diagFailed' = TRUE
    /\ DropLocals
    /\ UNCHANGED main
    /\ UNCHANGED <<connected, disconnects, enabled, released, interrupted,
                   failedStep, returnedFalse>>

\* bus.disable_torque(...) after the movements; test_single_motor then
\* returns True
DisableTorque ==
    /\ pc = "disable_torque"
    /\ released' = enabled
    /\ \/ /\ IF script = TSM
             THEN Returns("true")
             ELSE pc' = "finally" /\ UNCHANGED <<result, returnedFalse>>
          /\ UNCHANGED failedStep
       \/ /\ failedStep' = "disable_torque"
          /\ pc' = "except_outer"
          /\ UNCHANGED <<result, returnedFalse>>
    /\ DropLocals
    /\ UNCHANGED <<mode, motor, failed_motors>>
    /\ UNCHANGED <<connected, disconnects, enabled, interrupted, diagFailed>>

\* test_single_motor: except Exception: print("ERROR testing motor");
\* return False.  diagnose_wrist_roll: except Exception:
\* print("Diagnostic failed")
ExceptOuter ==
    /\ pc = "except_outer"
    /\ IF script = TSM
       THEN Returns("false")
       ELSE pc' = "finally" /\ UNCHANGED <<result, returnedFalse>>
    /\ DropLocals
    /\ UNCHANGED <<mode, motor, failed_motors>>
    /\ UNCHANGED <<connected, disconnects, enabled, released, interrupted,
                   failedStep, diagFailed>>

\* back in main: if not test_single_motor(...): failed_motors.append(name);
\* if name != last: input(...)
Returned ==
    /\ pc = "returned"
    /\ IF mode = "all"
       THEN /\ failed_motors' = IF result = "false"
                                THEN Append(failed_motors, motor)
                                ELSE failed_motors
            /\ pc' = IF motor # LastMotor THEN "prompt_next" ELSE "summary"
       ELSE /\ pc' = "finally"
            /\ UNCHANGED failed_motors
    /\ UNCHANGED <<script, large_movement, i, current_pos, target, current,
                   is_moving, last_pos, stuck_count, elapsed, iterStart,
                   outcomes, goal, hist, mode, motor, result, life>>

\* the numbers the summary prints
Total == LastMotor
Passed == LastMotor - Len(failed_motors)
Failed == Len(failed_motors)

\* print("DIAGNOSTIC SUMMARY") ...
Summary ==
    /\ pc = "summary"
    /\ pc' = "finally"
    /\ SameFrame
    /\ UNCHANGED life

\* The steps during which a KeyboardInterrupt can be raised: the statements
\* from connect's return to the finally clause.
Interruptible ==
    {"announce", "main_try", "prompt", "prompt_next", "call", "ping",
     "registers", "disable_first", "read_torque_state", "freedom",
     "read_initial", "enable_torque", "for", "sync_write", "recover_read",
     "while", "sample", "check", "except_read", "sleep", "wait_between",
     "except_movement", "after_for", "read_temperature", "read_voltage",
     "read_load", "disable_torque", "except_outer", "returned", "summary"}

\* Where a KeyboardInterrupt lands.  `except Exception` does not catch it.
\* diagnose_wrist_roll: the finally clause.  motor_diagnostics: the bare
\* `except:` around the read that follows a failed command catches it;
\* everywhere else inside main's try, `except KeyboardInterrupt`; before
\* that try, nothing.
OnInterrupt(s, p) ==
    IF s = DWR THEN "finally"
    ELSE IF p = "recover_read" THEN OnRecoverError
    ELSE IF p = "announce" THEN "exit"
    ELSE "except_kbd"

Interrupt ==
    /\ pc \in Interruptible
    /\ interrupted' = TRUE
    /\ pc' = OnInterrupt(script, pc)
    /\ DropLocals
    /\ UNCHANGED main
    /\ UNCHANGED <<connected, disconnects, enabled, released, failedStep,
                   diagFailed, returnedFalse>>

\* except KeyboardInterrupt: print("Diagnostics interrupted by user")
ExceptKeyboardInterrupt ==
    /\ pc = "except_kbd"
    /\ pc' = "finally"
    /\ SameFrame
    /\ UNCHANGED life

\* finally: bus.disconnect()
Finally ==
    /\ pc = "finally"
    /\ disconnects' = disconnects + 1
    /\ pc' = "exit"
    /\ SameFrame
    /\ UNCHANGED <<connected, enabled, released, interrupted, failedStep,
                   diagFailed, returnedFalse>>

\* The movement test of one motor.
Next ==
    \/ ReadInitial
    \/ EnableTorque
    \/ ForNext
    \/ SyncWrite
    \/ RecoverRead
    \/ While
    \/ ReadSample
    \/ Check
    \/ ExceptRead
    \/ Sleep
    \/ WaitBetween
    \/ ExceptMovement
    \/ AfterFor

Spec == Init /\ [][Next]_vars
SpecApproach == InitApproach /\ [][Next]_vars
SpecRuns == InitRuns /\ [][Next]_vars

\* A whole script.
NextMain ==
    \/ Connect
    \/ Announce
    \/ MainTry
    \/ Prompt
    \/ Call
    \/ Ping
    \/ ReadRegisters
    \/ FreeMotor
    \/ ReadDiagnostic
    \/ DisableTorque
    \/ ExceptOuter
    \/ Returned
    \/ Summary
    \/ Interrupt
    \/ ExceptKeyboardInterrupt
    \/ Finally
    \/ ReadInitial
    \/ EnableTorque
    \/ ForNext
    \/ SyncWrite
    \/ RecoverRead
    \/ While
    \/ ReadSample
    \/ Check
    \/ ExceptRead
    \/ Sleep
    \/ WaitBetween
    \/ ExceptMovement
    \/ AfterFor

SpecMain == InitMain /\ [][NextMain]_vars

\* ---------------------------------------------------------------- claims
MovementPcs == {"for", "sync_write", "recover_read", "while", "sample", "check",
                "except_read", "sleep", "wait_between", "except_movement"}
PollPcs == {"while", "sample", "check", "except_read", "sleep"}
Polling == pc \in PollPcs
\* the monitoring loop of the last movement commanded has been left
PollOver == goal # None /\ ~Polling

\* this step reports Converged
ReportsConverged ==
    \E k \in (Len(outcomes) + 1)..Len(outcomes') : outcomes'[k] = "Converged"

\* C1: the step that tests a sample reports Converged if and only if the
\* sample is strictly less than the tolerance (30 / 20) away from the target
\* and its Moving flag is false; no other step reports Converged.
C1_ConvergedIffSample ==
    [][ /\ pc = "check" =>
            (ReportsConverged <=> (InWindow(SampleValue) /\ ~is_moving))
        /\ pc # "check" => ~ReportsConverged ]_vars

\* a poll has ended Converged on a sample inside the window with Moving false
C1_Witness ==
    /\ pc = "wait_between"
    /\ outcomes = <<"Converged">>
    /\ InWindow(SampleValue)
    /\ ~is_moving

\* C2 as claimed (for polls in which no read raised): a poll without a
\* sample inside the window ends TimedOut, in both scripts.
C2_Original ==
    (PollOver /\ ~everInWindow /\ ~readFailed) => outcomes = <<"TimedOut">>

\* C2 amended: a poll without a sample inside the window ends TimedOut in
\* motor_diagnostics, and in wrist_roll_diagnostic unless the stuck test or
\* a read that raised ended it first; TimedOut is reported only with the
\* elapsed time at or past the timeout (5.0 s / 3.0 s).
C2_TimedOutUnlessStuck ==
    /\ (PollOver /\ ~everInWindow /\ script = TSM) => outcomes = <<"TimedOut">>
    /\ (PollOver /\ ~everInWindow /\ script = DWR /\ ~readFailed)
           => outcomes \in {<<"TimedOut">>, <<"Stuck">>}
    /\ (\E k \in 1..Len(outcomes) : outcomes[k] = "TimedOut")
           => elapsed >= ClaimedTimeout

\* a poll of wrist_roll_diagnostic with no sample inside the window has
\* timed out
C2_Witness ==
    /\ script = DWR
    /\ PollOver
    /\ ~everInWindow
    /\ ~readFailed
    /\ outcomes = <<"TimedOut">>
    /\ elapsed >= 30

\* C3 as claimed: once the position has been the same on 5 consecutive
\* samples with Moving true on each, the poll has ended Stuck.
C3_Original ==
    (script = DWR /\ sameRun >= 5 /\ busyRun >= 5) => outcomes = <<"Stuck">>

\* C3 amended: once the position has been the same on 7 consecutive samples
\* with Moving true on each, the poll has ended Stuck, in an iteration
\* entered before the timeout.
C3_StuckAfterSeven ==
    (script = DWR /\ sameRun >= 7 /\ busyRun >= 7)
        => (outcomes = <<"Stuck">> /\ iterStart < 30)

\* seven equal samples with Moving true, and the poll ended Stuck
C3_Witness ==
    /\ script = DWR
    /\ sameRun >= 7
    /\ busyRun >= 7
    /\ outcomes = <<"Stuck">>
    /\ pc = "wait_between"

\* C4 as claimed: when the samples never move away from the target and the
\* motor is inside the window with Moving false before the timeout, the
\* poll ends Converged, in both scripts.
C4_Original == entered => outcomes = <<"Converged">>

\* C4 amended: under the same condition the poll of motor_diagnostics ends
\* Converged whatever the steps between samples; the poll of
\* wrist_roll_diagnostic ends Converged unless the stuck test ended it
\* first; Converged is then reported within the timeout.
C4_ConvergesUnlessStuck ==
    entered =>
        /\ \/ outcomes = <<"Converged">>
           \/ script = DWR /\ outcomes = <<"Stuck">>
        /\ outcomes = <<"Converged">> => elapsed <= ClaimedTimeout

\* samples that only got closer, the last inside the window with Moving
\* false, after at least one earlier iteration: Converged
C4_Witness ==
    /\ pc = "wait_between"
    /\ entered
    /\ mono
    /\ iterStart > 0
    /\ outcomes = <<"Converged">>

\* C5 as claimed: a read that raised has ended the poll without an outcome
\* and control has left the loop, in both scripts.
C5_Original ==
    readFailed => (pc \in {"except_movement", "after_for", "disable_torque"}
                   /\ outcomes = <<>>)

\* C5 amended: in wrist_roll_diagnostic a read that raised ends the poll
\* without an outcome and control goes to the handler around the movement;
\* in motor_diagnostics the loop catches it and goes on polling, and the
\* poll ends Converged or TimedOut.
C5_PropagatesInWristRoll ==
    readFailed =>
        IF script = DWR
        THEN pc \in {"except_movement", "after_for", "disable_torque"} /\ outcomes = <<>>
        ELSE \/ Polling /\ outcomes = <<>>
             \/ ~Polling /\ outcomes \in {<<"Converged">>, <<"TimedOut">>}

\* a read of wrist_roll_diagnostic's loop raised and control is in the
\* handler around the movement
C5_Witness ==
    /\ script = DWR
    /\ readFailed
    /\ pc = "except_movement"
    /\ outcomes = <<>>

\* C6: a poll never has two outcomes, and once it is over with no read
\* having raised it has exactly one of Converged, TimedOut, Stuck.  Every
\* poll is left: the loop always has a step to take, its body is entered
\* only before the timeout (5.0 s / 3.0 s), and its condition is evaluated
\* again only after the clock has advanced past the time the body was
\* entered, so the body is entered a bounded number of times.
C6_ExactlyOneOutcome ==
    /\ [](Len(outcomes) <= 1)
    /\ []((PollOver /\ ~readFailed) =>
            outcomes \in {<<"Converged">>, <<"TimedOut">>, <<"Stuck">>})
    /\ [](Polling => ENABLED Next)
    /\ []((Polling /\ pc # "while") => iterStart < ClaimedTimeout)
    /\ [][(Polling /\ pc # "while" /\ pc' = "while") => elapsed' > iterStart]_vars

\* a poll in which no read raised is over, with the outcome Stuck
C6_Witness ==
    /\ PollOver
    /\ ~readFailed
    /\ pc = "wait_between"
    /\ outcomes = <<"Stuck">>

\* C7 as claimed: as long as every write of Goal_Position has returned, the
\* target of a movement is the position read before the first movement plus
\* the offset of the movement, clamped, whatever the samples taken while the
\* movements before it were monitored.
C7_TargetsFromStart ==
    (pc = "sync_write" /\ ~sendFailed)
        => target = TargetOf(script, large_movement, startPos, i)

\* C8: when the while condition is evaluated after an iteration, at least
\* the poll interval (0.2 s / 0.1 s) has passed since the iteration before
\* began, so two samples are never closer than that.
C8_PollInterval ==
    (pc = "while" /\ iterStart # None)
        => elapsed - iterStart >= (IF script = TSM THEN 2 ELSE 1)

\* the loop of motor_diagnostics is back at its condition after an
\* iteration in which a read raised
C8_Witness ==
    /\ script = TSM
    /\ pc = "while"
    /\ iterStart # None
    /\ readFailed
    /\ elapsed - iterStart >= 2

\* C9 as claimed: Stuck is reported only after changes under 2 units
\* between the last 5 samples with Moving true on each of the 5.
C9_Original ==
    (script = DWR /\ outcomes = <<"Stuck">>) => (quietRun >= 4 /\ busyRun >= 5)

\* C9 amended: Stuck is reported only after changes under 2 units between
\* the last 7 samples (so between the last 5) with Moving true on the last.
C9_StuckOnlyAfterQuietRun ==
    (script = DWR /\ outcomes = <<"Stuck">>) => (quietRun >= 6 /\ busyRun >= 1)

\* Stuck reported with Moving true on the last sample only
C9_Witness ==
    /\ script = DWR
    /\ outcomes = <<"Stuck">>
    /\ quietRun >= 6
    /\ busyRun = 1

\* C10: every Goal_Position written is inside the safe range: 200..3800 in
\* the large-movement mode of motor_diagnostics, 500..3500 otherwise.
C10_GoalInSafeRange ==
    goal # None =>
        IF script = TSM /\ large_movement
        THEN goal >= 200 /\ goal <= 3800
        ELSE goal >= 500 /\ goal <= 3500

\* a goal was written that the clamp had to bring down to the upper limit
C10_Witness ==
    /\ goal = 3500
    /\ startPos = 3450
    /\ i = 2

\* C11: when a script is over and bus.connect() had succeeded,
\* bus.disconnect() has been called exactly once, whatever the exit path:
\* normal completion, unknown motor name, ping failure, an exception of a
\* bus operation, a keyboard interrupt.
C11_DisconnectedOnce ==
    (pc = "exit" /\ connected) => disconnects = 1

\* C12: when diagnose_wrist_roll is over after enable_torque had returned
\* and no keyboard interrupt was raised, disable_torque has been called
\* after it, whichever bus read or write raised.
C12_TorqueReleasedInWristRoll ==
    (script = DWR /\ pc = "exit" /\ enabled /\ ~interrupted) => released

\* C13: when test_single_motor has returned after enable_torque had
\* succeeded, disable_torque has been called after it, whichever bus
\* operations raised; and once disable_torque has been called the test
\* sends no further movement command.
C13_TorqueReleased ==
    script = TSM =>
        /\ (pc = "returned" /\ enabled) => released
        /\ released => pc \notin MovementPcs

\* test_single_motor has returned with the torque released although a
\* movement command failed, the read that follows it failed too, and a
\* diagnostic read failed
C13_Witness ==
    /\ script = TSM
    /\ pc = "returned"
    /\ enabled
    /\ released
    /\ sendFailed
    /\ diagFailed
    /\ outcomes = <<"TimedOut">>

\* C14: test_single_motor has returned False if and only if the ping
\* failed or the initial position read, enable_torque or disable_torque
\* raised; in all-motors mode failed_motors lists, once each, exactly the
\* motors whose test returned False, and the summary's Passed + Failed is
\* Total.
C14_FalseIffUnguardedStepFailed ==
    /\ pc = "returned" =>
          (result = "false" <=>
             failedStep \in {"ping", "read_initial", "enable_torque",
                             "disable_torque"})
    /\ (mode = "all" /\ pc \in {"prompt_next", "summary"}) =>
          /\ {failed_motors[k] : k \in 1..Len(failed_motors)} = returnedFalse
          /\ Len(failed_motors) = Cardinality(returnedFalse)
    /\ pc = "summary" =>
          /\ Passed + Failed = Total
          /\ Failed = Cardinality(returnedFalse)
          /\ Passed = Cardinality((1..LastMotor) \ returnedFalse)

\* the summary of an all-motors run in which the first motor failed and the
\* last one passed although a movement timed out, a movement command
\* failed and a diagnostic read failed
C14_Witness ==
    /\ mode = "all"
    /\ pc = "summary"
    /\ failed_motors = <<1>>
    /\ result = "true"
    /\ outcomes = <<"TimedOut">>
    /\ sendFailed
    /\ diagFailed
====
